---- MODULE Spec2Model ----
(***************************************************************************)
(* A model of find_consecutive_integers, the helper of the notebook        *)
(* consecutive-integer-groups.ipynb.  One call of the function is a small  *)
(* state machine: the empty check, the computation of the boundary list,   *)
(* one step per iteration of the boundary loop, and the return.  The       *)
(* array operations (np.diff, np.where, np.concatenate) are operators that *)
(* compute what numpy computes, on 0-based positions as the code does.     *)
(***************************************************************************)
EXTENDS Integers, Sequences, FiniteSets

VARIABLES
    idxs,          \* the argument idxs, as the array np.array(idxs)
    min_consec,    \* the argument min_consec
    start_offset,  \* the argument start_offset
    pc,            \* "call", "loop", "done" or "error" (IndexError raised)
    boundaries,    \* the local boundaries; <<>> while it is not computed
    i,             \* the loop variable: the number of iterations started
    start_idx,     \* the local start_idx of the latest iteration
    end_idx,       \* the local end_idx of the latest iteration
    groups,        \* the local groups, which is the value returned
    first,         \* the first finished call of the session, as
                   \* <<idxs, min_consec, start_offset, result>>; <<>> before
    calls,         \* the number of calls of the session so far
    rr_args,       \* RiskRewardCalculator: the constructor's arguments
    rr_pc,         \* RiskRewardCalculator: where the object's life is
    calc,          \* RiskRewardCalculator: the attributes stored on self
    results,       \* the list r_levels() returned last
    query          \* the last r_level_at_price call, as <<price, r_level>>

\* the variables of a call of find_consecutive_integers
fciVars == <<idxs, min_consec, start_offset, pc, boundaries, i, start_idx,
             end_idx, groups>>

\* the history of a session of calls
sessVars == <<first, calls>>

\* the variables of a RiskRewardCalculator
rrVars == <<rr_args, rr_pc, calc, results, query>>

vars == <<idxs, min_consec, start_offset, pc, boundaries, i, start_idx,
          end_idx, groups, first, calls, rr_args, rr_pc, calc, results,
          query>>

----------------------------------------------------------------------------
(* Bounds of the model. *)

\* the longest input sequence drawn
MaxLen == 4

\* ordinary input values are drawn from -1 .. MaxVal
MaxVal == 1

\* the offsets drawn are -MaxOff, 0 and MaxOff
MaxOff == 2

\* The width of the array's integer dtype.  np.array of Python ints is an
\* int64 array; TLC's integers are narrower than that, so the model keeps
\* the two's complement arithmetic and scales the width down.
IntBits == 8

RECURSIVE Pow2(_)
Pow2(n) == IF n = 0 THEN 1 ELSE 2 * Pow2(n - 1)

\* the dtype holds IntMin .. IntMax, Modulus values in all
Modulus == Pow2(IntBits)
IntMin == -(Modulus \div 2)
IntMax == (Modulus \div 2) - 1

----------------------------------------------------------------------------
(* The array operations of numpy that the function uses. *)

\* Arithmetic of the integer dtype: the result wraps around silently.
WrapInt(x) == ((x - IntMin) % Modulus) + IntMin

\* np.diff(a): a[j+1] - a[j] in the dtype of the array.
Diff(a) == [j \in 1 .. Len(a) - 1 |-> WrapInt(a[j + 1] - a[j])]

\* np.where(c)[0]: the 0-based positions where c holds, ascending.
RECURSIVE WhereFrom(_, _)
WhereFrom(c, k) ==
    IF k > Len(c) THEN <<>>
    ELSE (IF c[k] THEN <<k - 1>> ELSE <<>>) \o WhereFrom(c, k + 1)

Where(c) == WhereFrom(c, 1)

\* a[k] with Python's indexing: a negative k counts from the end, and a k
\* outside -len(a) .. len(a)-1 raises IndexError.
IndexOk(a, k) == -Len(a) <= k /\ k < Len(a)
Index(a, k) == IF k >= 0 THEN a[k + 1] ELSE a[Len(a) + k + 1]

----------------------------------------------------------------------------
(* The steps of find_consecutive_integers. *)

\* A variant without the short cut for the empty input.
NeverEmpty(a) == FALSE

\* len(idxs) == 0
IsEmptyInput(a) == Len(a) = 0

\* Variants of the break points: a break only where the step is larger than
\* one, and the positions of np.where without the + 1.
BreakPointsGapOnly(a) ==
    LET d == Diff(a)
        w == Where([j \in 1 .. Len(d) |-> d[j] > 1])
    IN  [j \in 1 .. Len(w) |-> w[j] + 1]

BreakPointsNoShift(a) ==
    LET d == Diff(a)
    IN  Where([j \in 1 .. Len(d) |-> d[j] # 1])

\* np.where(np.diff(idxs) != 1)[0] + 1
BreakPoints(a) ==
    LET d == Diff(a)
        w == Where([j \in 1 .. Len(d) |-> d[j] # 1])
    IN  [j \in 1 .. Len(w) |-> w[j] + 1]

\* np.concatenate(([0], boundaries, [len(idxs)]))
Boundaries(a) == <<0>> \o BreakPoints(a) \o <<Len(a)>>

\* range(0, len(boundaries) - 1): is there an iteration number k?
InRange(b, k) == 0 <= k /\ k < Len(b) - 1

\* start_idx = boundaries[i] and end_idx = boundaries[i + 1] - 1
StartIdx(b, k) == Index(b, k)
EndIdx(b, k) == Index(b, k + 1) - 1

\* Variants of the threshold test: a strict comparison, and the comparison
\* turned around.
QualifiesStrict(s, e, m) == e - s + 1 > m
QualifiesAtMost(s, e, m) == e - s + 1 <= m

\* end_idx - start_idx + 1 >= min_consec
Qualifies(s, e, m) == e - s + 1 >= m

\* A variant of the pair that shifts the start alone.
GroupPairStartOnly(a, s, e, off) == <<Index(a, s) + off, Index(a, e)>>

\* (int(idxs[start_idx]) + start_offset, int(idxs[end_idx]) + start_offset)
GroupPair(a, s, e, off) == <<Index(a, s) + off, Index(a, e) + off>>

\* A variant that puts the new pair in front.
PrependGroup(g, p) == <<p>> \o g

\* groups.append(...)
AppendGroup(g, p) == Append(g, p)

\* The whole loop from iteration k on, as the list of the groups it appends.
\* It is used to state how two calls relate.
RECURSIVE LoopFrom(_, _, _, _, _)
LoopFrom(a, b, k, m, off) ==
    IF ~InRange(b, k) THEN <<>>
    ELSE LET s == StartIdx(b, k)
             e == EndIdx(b, k)
         IN  (IF Qualifies(s, e, m) /\ IndexOk(a, s) /\ IndexOk(a, e)
              THEN AppendGroup(<<>>, GroupPair(a, s, e, off))
              ELSE <<>>) \o LoopFrom(a, b, k + 1, m, off)

\* The value find_consecutive_integers(a, m, off) returns.
FindConsecutiveIntegers(a, m, off) ==
    IF IsEmptyInput(a) THEN <<>> ELSE LoopFrom(a, Boundaries(a), 0, m, off)

----------------------------------------------------------------------------
(* The inputs. *)

Values == {IntMin, IntMax} \cup (-1 .. MaxVal)

Thresholds == -1 .. MaxLen

Offsets == {-MaxOff, 0, MaxOff}

SeqsUpTo(S, n) == UNION {[1 .. k -> S] : k \in 0 .. n}

\* test_array of the notebook
test_array ==
    <<3, 4, 5, 6, 9, 10, 15, 16, 17, 18, 19, 25, 30, 31, 32, 40, 42, 44,
      50, 51, 52, 53>>

\* The calls the notebook makes on test_array and on the empty list, and the
\* two small scenarios the specification lists.
Scenarios ==
    ({test_array} \X {3, 4, 5, 10} \X {0})
    \cup {<< <<>>, 3, 0 >>, << <<7>>, 1, 0 >>, << <<1, 2, 2, 3>>, 2, 0 >>}

Inputs == (SeqsUpTo(Values, MaxLen) \X Thresholds \X Offsets) \cup Scenarios

\* no calculator is under construction
NoCalculator ==
    /\ rr_args = <<>>
    /\ rr_pc = "idle"
    /\ calc = <<>>
    /\ results = <<>>
    /\ query = <<>>

\* the first call of a session, on one of the inputs of the set ins
FirstCall(ins) ==
    /\ \E in \in ins :
          /\ idxs = in[1]
          /\ min_consec = in[2]
          /\ start_offset = in[3]
    /\ pc = "call"
    /\ boundaries = <<>>
    /\ i = 0
    /\ start_idx = 0
    /\ end_idx = 0
    /\ groups = <<>>
    /\ first = <<>>
    /\ calls = 1

Init == FirstCall(Inputs) /\ NoCalculator

\* if len(idxs) == 0: return []
ReturnEmpty ==
    /\ pc = "call"
    /\ IsEmptyInput(idxs)
    /\ pc' = "done"
    /\ groups' = <<>>
    /\ UNCHANGED <<idxs, min_consec, start_offset, boundaries, i, start_idx,
                   end_idx>>
    /\ UNCHANGED <<sessVars, rrVars>>

\* A variant in which groups is not a fresh list in every call.
FindBoundariesKeepGroups ==
    /\ pc = "call"
    /\ ~IsEmptyInput(idxs)
    /\ boundaries' = Boundaries(idxs)
    /\ i' = 0
    /\ pc' = "loop"
    /\ UNCHANGED <<idxs, min_consec, start_offset, start_idx, end_idx,
                   groups>>
    /\ UNCHANGED <<sessVars, rrVars>>

\* groups = [], the two assignments to boundaries, and the start of the loop
\* at range(0, ...)
FindBoundaries ==
    /\ pc = "call"
    /\ ~IsEmptyInput(idxs)
    /\ groups' = <<>>
    /\ boundaries' = Boundaries(idxs)
    /\ i' = 0
    /\ pc' = "loop"
    /\ UNCHANGED <<idxs, min_consec, start_offset, start_idx, end_idx>>
    /\ UNCHANGED <<sessVars, rrVars>>

\* One iteration of the loop over the boundary ranges.
LoopBody ==
    /\ pc = "loop"
    /\ InRange(boundaries, i)
    /\ start_idx' = StartIdx(boundaries, i)
    /\ end_idx' = EndIdx(boundaries, i)
    /\ i' = i + 1
    /\ IF Qualifies(start_idx', end_idx', min_consec)
       THEN IF IndexOk(idxs, start_idx') /\ IndexOk(idxs, end_idx')
            THEN /\ groups' = AppendGroup(groups,
                        GroupPair(idxs, start_idx', end_idx', start_offset))
                 /\ pc' = pc
            ELSE /\ groups' = groups
                 /\ pc' = "error"
       ELSE /\ groups' = groups
            /\ pc' = pc
    /\ UNCHANGED <<idxs, min_consec, start_offset, boundaries>>
    /\ UNCHANGED <<sessVars, rrVars>>

\* return groups
ReturnGroups ==
    /\ pc = "loop"
    /\ ~InRange(boundaries, i)
    /\ pc' = "done"
    /\ UNCHANGED <<idxs, min_consec, start_offset, boundaries, i, start_idx,
                   end_idx, groups>>
    /\ UNCHANGED <<sessVars, rrVars>>

Next == ReturnEmpty \/ FindBoundaries \/ LoopBody \/ ReturnGroups

Spec == Init /\ [][Next]_vars

----------------------------------------------------------------------------
(* A session: the notebook calls the function several times in one kernel. *)

\* the number of calls of a session
MaxCalls == 3

\* the longest input of a session
SessionLen == 2

SessionInputs ==
    SeqsUpTo(0 .. MaxVal, SessionLen) \X {1, 2} \X {0, MaxOff}

\* The next call of the session.  Nothing is carried over by the function:
\* the model leaves in the locals what the call before left there, so that a
\* local read before it is assigned would show.
CallAgain ==
    /\ pc = "done"
    /\ calls < MaxCalls
    /\ \E in \in SessionInputs :
          /\ idxs' = in[1]
          /\ min_consec' = in[2]
          /\ start_offset' = in[3]
    /\ first' = IF first = <<>>
                THEN <<idxs, min_consec, start_offset, groups>>
                ELSE first
    /\ calls' = calls + 1
    /\ pc' = "call"
    /\ UNCHANGED <<boundaries, i, start_idx, end_idx, groups, rrVars>>

SessionInit == FirstCall(SessionInputs) /\ NoCalculator

SessionNext ==
    ReturnEmpty \/ FindBoundaries \/ LoopBody \/ ReturnGroups \/ CallAgain

SpecSession == SessionInit /\ [][SessionNext]_vars

----------------------------------------------------------------------------
(* Floating point numbers, for the RiskRewardCalculator.  A float is NaN or *)
(* a whole number of units, Scale units making 1.0; it has FloatBits        *)
(* significant bits, and every operation rounds its exact result to the     *)
(* nearest float, ties to even.  Python's floats have 53 significant bits   *)
(* and a far finer unit; the model scales both down and keeps the rounding. *)
(* Infinities do not arise from the values drawn.                           *)

\* the significant bits of a float
FloatBits == 4

\* the unit is 2^-FracBits
FracBits == 2

Scale == Pow2(FracBits)

\* NaN is kept as a number no operation on the values drawn can give; every
\* operation and comparison tests for it first.
NaN == -Pow2(20)

IsNaN(x) == x = NaN

\* the spacing of the floats around n / d, for n >= 0 and d > 0
RECURSIVE StepFor(_, _, _)
StepFor(n, d, st) ==
    IF n < d * Pow2(FloatBits) * st THEN st ELSE StepFor(n, d, 2 * st)

\* n / d rounded to a whole number, ties to even, for n >= 0 and d > 0
RoundHalfEven(n, d) ==
    LET f == n \div d
        rem == n % d
    IN  IF 2 * rem < d THEN f
        ELSE IF 2 * rem > d THEN f + 1
        ELSE IF f % 2 = 0 THEN f ELSE f + 1

RoundMag(n, d) == LET st == StepFor(n, d, 1) IN st * RoundHalfEven(n, d * st)

\* the float nearest to n / d units, for d > 0
RoundRat(n, d) == IF n >= 0 THEN RoundMag(n, d) ELSE -RoundMag(-n, d)

\* n units is a float
IsFloat(n) == RoundRat(n, 1) = n

\* float(k) of an int k
FromInt(k) == RoundRat(k * Scale, 1)

FAdd(x, y) == IF IsNaN(x) \/ IsNaN(y) THEN NaN ELSE RoundRat(x + y, 1)
FSub(x, y) == IF IsNaN(x) \/ IsNaN(y) THEN NaN ELSE RoundRat(x - y, 1)
FMul(x, y) == IF IsNaN(x) \/ IsNaN(y) THEN NaN ELSE RoundRat(x * y, Scale)

\* x / y for y other than 0; Python raises ZeroDivisionError on y = 0
FDiv(x, y) ==
    IF IsNaN(x) \/ IsNaN(y) THEN NaN
    ELSE IF y > 0 THEN RoundRat(x * Scale, y)
    ELSE RoundRat(-(x * Scale), -y)

\* abs(x)
FAbs(x) == IF IsNaN(x) THEN NaN ELSE IF x < 0 THEN -x ELSE x

\* the comparisons: each is False when an operand is NaN
FLt(x, y) == ~IsNaN(x) /\ ~IsNaN(y) /\ x < y
FLe(x, y) == ~IsNaN(x) /\ ~IsNaN(y) /\ x <= y
FGt(x, y) == FLt(y, x)
FGe(x, y) == FLe(y, x)

\* y == 0, the test of a division for ZeroDivisionError
IsZero(y) == ~IsNaN(y) /\ y = 0

----------------------------------------------------------------------------
(* RiskRewardCalculator. *)

DEFAULT_R_VALUES == <<1, 2, 3, 4, 5>>

\* is_short and entry_point >= stop_loss
ShortCheckFails(a) == a.is_short /\ FGe(a.entry_point, a.stop_loss)

\* not is_short and entry_point <= stop_loss
LongCheckFails(a) == ~a.is_short /\ FLe(a.entry_point, a.stop_loss)

\* direction = -1 if self.is_short else 1
Direction(c) == IF c.is_short THEN -1 ELSE 1

\* potential_pl = r * self.amount_to_risk
PotentialPl(c, r) == FMul(FromInt(r), c.amount_to_risk)

\* price = self.entry_point + (direction * r * self.price_delta)
LevelPrice(c, r) ==
    FAdd(c.entry_point, FMul(FromInt(Direction(c) * r), c.price_delta))

\* RLevelOutput(r_level=r, potential_pl=potential_pl, price=price)
RLevelOutput(c, r) ==
    [r_level |-> r, potential_pl |-> PotentialPl(c, r),
     price |-> LevelPrice(c, r)]

\* the results of the loop over r_levels
RLevelOutputs(c, rs) == [k \in 1 .. Len(rs) |-> RLevelOutput(c, rs[k])]

\* A variant of r_level_at_price that leaves the direction out.
RLevelAtPriceNoDirection(c, price) ==
    FDiv(FSub(price, c.entry_point), c.price_delta)

\* r_level = direction * (price - self.entry_point) / self.price_delta
RLevelAtPriceValue(c, price) ==
    FDiv(FMul(FromInt(Direction(c)), FSub(price, c.entry_point)),
         c.price_delta)

\* the largest price drawn, in units
MaxPrice == 36

Prices == {n \in 0 .. MaxPrice : IsFloat(n)} \cup {NaN}

\* total_account_value: 0.0 and 16.0
AccountValues == {0, FromInt(16)}

\* risk_rate: 0.25
RiskRates == {Scale \div 4}

ConstructorArgs ==
    [total_account_value : AccountValues, entry_point : Prices,
     stop_loss : Prices, risk_rate : RiskRates, is_short : BOOLEAN]

\* the argument of r_levels(): None, or a list
NoList == [is_list |-> FALSE, list |-> <<>>]
RLevelsArgs == {NoList, [is_list |-> TRUE, list |-> <<2, 1>>]}

\* no call of find_consecutive_integers is made
NoCall ==
    /\ idxs = <<>>
    /\ min_consec = 1
    /\ start_offset = 0
    /\ pc = "idle"
    /\ boundaries = <<>>
    /\ i = 0
    /\ start_idx = 0
    /\ end_idx = 0
    /\ groups = <<>>
    /\ first = <<>>
    /\ calls = 0

RRInit ==
    /\ NoCall
    /\ rr_args \in ConstructorArgs
    /\ rr_pc = "init"
    /\ calc = <<>>
    /\ results = <<>>
    /\ query = <<>>

\* the two checks of __init__, which raise ValueError
Validate ==
    /\ rr_pc = "init"
    /\ rr_pc' = IF ShortCheckFails(rr_args) \/ LongCheckFails(rr_args)
                THEN "ValueError" ELSE "store"
    /\ UNCHANGED <<rr_args, calc, results, query, fciVars, sessVars>>

\* the five arguments are stored, and amount_to_risk
StoreArguments ==
    /\ rr_pc = "store"
    /\ calc' = [total_account_value |-> rr_args.total_account_value,
                entry_point |-> rr_args.entry_point,
                stop_loss |-> rr_args.stop_loss,
                risk_rate |-> rr_args.risk_rate,
                is_short |-> rr_args.is_short,
                amount_to_risk |->
                    FMul(rr_args.total_account_value, rr_args.risk_rate)]
    /\ rr_pc' = "shares"
    /\ UNCHANGED <<rr_args, results, query, fciVars, sessVars>>

\* price_delta and shares_to_trade
ComputeShares ==
    /\ rr_pc = "shares"
    /\ LET delta == FAbs(FSub(calc.entry_point, calc.stop_loss))
       IN  IF IsZero(delta)
           THEN /\ calc' = [k \in DOMAIN calc \cup {"price_delta"} |->
                              IF k = "price_delta" THEN delta ELSE calc[k]]
                /\ rr_pc' = "ZeroDivisionError in shares_to_trade"
           ELSE /\ calc' = [k \in DOMAIN calc
                                  \cup {"price_delta", "shares_to_trade"} |->
                              IF k = "price_delta" THEN delta
                              ELSE IF k = "shares_to_trade"
                                   THEN FDiv(calc.amount_to_risk, delta)
                              ELSE calc[k]]
                /\ rr_pc' = "investment"
    /\ UNCHANGED <<rr_args, results, query, fciVars, sessVars>>

\* total_investment and risk_pct_of_account
ComputeInvestment ==
    /\ rr_pc = "investment"
    /\ LET inv == FMul(calc.shares_to_trade, calc.entry_point)
       IN  IF IsZero(calc.total_account_value)
           THEN /\ calc' = [k \in DOMAIN calc \cup {"total_investment"} |->
                              IF k = "total_investment" THEN inv
                              ELSE calc[k]]
                /\ rr_pc' = "ZeroDivisionError in amount_ratio"
           ELSE /\ calc' = [k \in DOMAIN calc
                              \cup {"total_investment",
                                    "risk_pct_of_account"} |->
                              IF k = "total_investment" THEN inv
                              ELSE IF k = "risk_pct_of_account"
                                   THEN FMul(FDiv(calc.amount_to_risk,
                                                  calc.total_account_value),
                                             FromInt(100))
                              ELSE calc[k]]
                /\ rr_pc' = "ready"
    /\ UNCHANGED <<rr_args, results, query, fciVars, sessVars>>

\* r_levels(r_levels): the argument is kept with the list returned
RLevels ==
    /\ rr_pc = "ready"
    /\ \E arg \in RLevelsArgs :
          results' =
              [arg |-> arg,
               out |-> RLevelOutputs(calc, IF ~arg.is_list
                                           THEN DEFAULT_R_VALUES
                                           ELSE arg.list)]
    /\ UNCHANGED <<rr_args, rr_pc, calc, query, fciVars, sessVars>>

\* r_level_at_price(price), at the price of a level returned or at the entry
RLevelAtPrice ==
    /\ rr_pc = "ready"
    /\ results # <<>>
    /\ \E price \in {results.out[k].price : k \in 1 .. Len(results.out)}
                       \cup {calc.entry_point} :
          query' = <<price, RLevelAtPriceValue(calc, price)>>
    /\ UNCHANGED <<rr_args, rr_pc, calc, results, fciVars, sessVars>>

RRNext ==
    \/ Validate
    \/ StoreArguments
    \/ ComputeShares
    \/ ComputeInvestment
    \/ RLevels
    \/ RLevelAtPrice

SpecRR == RRInit /\ [][RRNext]_vars

----------------------------------------------------------------------------
(* Notions the properties are stated in. *)

N == Len(idxs)

Returned == pc = "done"

\* the input is non-decreasing
NonDecreasing(a) == \A j \in 1 .. Len(a) - 1 : a[j] <= a[j + 1]

TypeOK ==
    /\ pc \in {"call", "loop", "done", "error"}
    /\ i \in 0 .. N + 1
    /\ Len(groups) <= N

----------------------------------------------------------------------------
(* Maximal runs, as the specification defines them: 1-based index spans. *)

\* every element of the span is its predecessor plus one
IsRunSpan(a, lo, hi) == \A j \in lo .. hi - 1 : a[j + 1] = a[j] + 1

\* a run span that extends to neither side
IsMaximalRun(a, lo, hi) ==
    /\ IsRunSpan(a, lo, hi)
    /\ lo = 1 \/ a[lo] # a[lo - 1] + 1
    /\ hi = Len(a) \/ a[hi + 1] # a[hi] + 1

MaximalRuns(a) ==
    {r \in (1 .. Len(a)) \X (1 .. Len(a)) :
        r[1] <= r[2] /\ IsMaximalRun(a, r[1], r[2])}

RunLength(r) == r[2] - r[1] + 1

QualifyingRuns(a, m) == {r \in MaximalRuns(a) : RunLength(r) >= m}

\* the number of elements a returned pair covers, read as a closed interval
PairSize(p) == p[2] - p[1] + 1

RECURSIVE SumSizes(_)
SumSizes(g) == IF g = <<>> THEN 0 ELSE PairSize(Head(g)) + SumSizes(Tail(g))

\* s is a subsequence of t: the same pairs in the same order, some left out
RECURSIVE IsSubseq(_, _)
IsSubseq(s, t) ==
    IF s = <<>> THEN TRUE
    ELSE IF t = <<>> THEN FALSE
    ELSE IF Head(s) = Head(t) THEN IsSubseq(Tail(s), Tail(t))
    ELSE IsSubseq(s, Tail(t))

\* every pair of g with k added to its start and to its end
Shift(g, k) == [j \in 1 .. Len(g) |-> <<g[j][1] + k, g[j][2] + k>>]

\* the thresholds of the calls the model makes
AllThresholds == Thresholds \cup {in[2] : in \in Scenarios}

----------------------------------------------------------------------------
(* C1: on a non-decreasing input and a threshold >= 1 the call returns      *)
(* exactly the qualifying maximal runs, left to right, as the pairs         *)
(* (values[lo] + start_offset, values[hi] + start_offset): the k-th pair is *)
(* the qualifying run with k - 1 qualifying runs to its left.  Shorter runs *)
(* contribute nothing and are not merged into a neighbour.                  *)
C1_ExactQualifyingRuns ==
    (Returned /\ NonDecreasing(idxs) /\ min_consec >= 1) =>
        LET Q == QualifyingRuns(idxs, min_consec)
        IN  /\ Len(groups) = Cardinality(Q)
            /\ \A k \in 1 .. Len(groups) :
                  \E r \in Q :
                     /\ Cardinality({q \in Q : q[1] < r[1]}) = k - 1
                     /\ groups[k] = <<idxs[r[1]] + start_offset,
                                      idxs[r[2]] + start_offset>>

\* a returned run with a shorter run next to it, under a non-zero offset
C1_Witness ==
    /\ Returned /\ NonDecreasing(idxs) /\ min_consec >= 2
    /\ start_offset # 0
    /\ Len(groups) >= 1
    /\ \E r \in MaximalRuns(idxs) : RunLength(r) < min_consec

(* C2: on a non-decreasing input S, threshold 1 returns one range per       *)
(* maximal run, each range being the values of a maximal run, and the sizes *)
(* of the ranges add up to |S|.                                             *)
C2_ThresholdOnePartitions ==
    (Returned /\ NonDecreasing(idxs) /\ min_consec = 1) =>
        /\ Len(groups) = Cardinality(MaximalRuns(idxs))
        /\ \A r \in MaximalRuns(idxs) :
              \E k \in 1 .. Len(groups) :
                 groups[k] = <<idxs[r[1]] + start_offset,
                               idxs[r[2]] + start_offset>>
        /\ SumSizes(groups) = N

\* a partition into a singleton and a longer run
C2_Witness ==
    /\ Returned /\ NonDecreasing(idxs) /\ min_consec = 1
    /\ Len(groups) >= 2
    /\ \E k \in 1 .. Len(groups) : PairSize(groups[k]) = 1
    /\ \E k \in 1 .. Len(groups) : PairSize(groups[k]) >= 2

(* C3: threshold monotonicity.  The list returned for min_consec is a       *)
(* subsequence of the list the function returns on the same input and       *)
(* offset for every smaller threshold.                                      *)
C3_ThresholdMonotone ==
    Returned =>
        \A t \in AllThresholds :
           t < min_consec =>
              IsSubseq(groups,
                       FindConsecutiveIntegers(idxs, t, start_offset))

\* a range survives the larger threshold and another one does not
C3_Witness ==
    /\ Returned
    /\ Len(groups) >= 1
    /\ \E t \in AllThresholds :
          /\ t < min_consec
          /\ Len(FindConsecutiveIntegers(idxs, t, start_offset))
                > Len(groups)

(* C4: offset linearity.  The list returned under start_offset is the list  *)
(* the function returns under offset 0 with start_offset added to every     *)
(* start and end: the same length, the same runs.                           *)
C4_OffsetLinear ==
    Returned =>
        groups = Shift(FindConsecutiveIntegers(idxs, min_consec, 0),
                       start_offset)

\* two ranges returned under a negative offset
C4_Witness ==
    /\ Returned
    /\ start_offset < 0
    /\ Len(groups) >= 2

(* C5: on the empty input the call returns the empty list, for every        *)
(* threshold and offset, without an error and without computing the         *)
(* boundaries or entering the loop: the only step it takes is the return.   *)
C5_EmptyInputShortCircuits ==
    N = 0 =>
        /\ pc \in {"call", "done"}
        /\ pc = "call" => ENABLED ReturnEmpty
        /\ boundaries = <<>>
        /\ i = 0
        /\ groups = <<>>

\* the empty input returned on, under a threshold and an offset other than
\* those of the notebook's call
C5_Witness ==
    /\ Returned /\ N = 0
    /\ groups = <<>>
    /\ min_consec < 1
    /\ start_offset > 0

(* C6: on test_array with offset 0 the call returns                         *)
(* [(3,6),(15,19),(30,32),(50,53)] for min_consec 3,                        *)
(* [(3,6),(15,19),(50,53)] for 4, [(15,19)] for 5 and [] for 10.            *)
C6_NotebookOutputs ==
    (Returned /\ idxs = test_array /\ start_offset = 0) =>
        /\ min_consec = 3 =>
              groups = << <<3, 6>>, <<15, 19>>, <<30, 32>>, <<50, 53>> >>
        /\ min_consec = 4 =>
              groups = << <<3, 6>>, <<15, 19>>, <<50, 53>> >>
        /\ min_consec = 5 => groups = << <<15, 19>> >>
        /\ min_consec = 10 => groups = <<>>

\* the call on test_array with min_consec = 4 has returned
C6_Witness ==
    /\ Returned /\ idxs = test_array /\ start_offset = 0
    /\ min_consec = 4
    /\ Len(groups) = 3

(* C7: adjacent equal values break a run.  Whenever values[j+1] = values[j] *)
(* the position of the second one is a boundary, and no candidate run of    *)
(* the loop holds two adjacent equal values; [1,2,2,3] with threshold 2     *)
(* returns [(1,2),(2,3)] and [7] with threshold 1 returns [(7,7)].          *)
C7_DuplicateBreaksRun ==
    /\ (pc \in {"loop", "done"} /\ N > 0) =>
          \A j \in 1 .. N - 1 :
             idxs[j + 1] = idxs[j] =>
                \E k \in 1 .. Len(boundaries) : boundaries[k] = j
    /\ (pc \in {"loop", "done"} /\ i >= 1) =>
          \A j \in start_idx + 1 .. end_idx : idxs[j + 1] # idxs[j]
    /\ (Returned /\ idxs = <<1, 2, 2, 3>> /\ min_consec = 2
          /\ start_offset = 0) => groups = << <<1, 2>>, <<2, 3>> >>
    /\ (Returned /\ idxs = <<7>> /\ min_consec = 1 /\ start_offset = 0) =>
          groups = << <<7, 7>> >>

\* the call on [1,2,2,3] has returned two ranges
C7_Witness ==
    /\ Returned /\ idxs = <<1, 2, 2, 3>> /\ min_consec = 2
    /\ Len(groups) = 2

(* C8 as stated: on a non-decreasing input and a threshold >= 1, each       *)
(* returned range's end is strictly less than the next returned range's     *)
(* start, so that the ranges are disjoint as closed intervals.              *)
C8_StrictlyDisjoint ==
    (Returned /\ NonDecreasing(idxs) /\ min_consec >= 1) =>
        \A k \in 1 .. Len(groups) - 1 : groups[k][2] < groups[k + 1][1]

(* C8 as amended: on a non-decreasing input and a threshold >= 1 the        *)
(* returned ranges are in left-to-right order with each range's end at most *)
(* the next range's start, and the two are equal only where the input       *)
(* repeats that value; the ranges then share the value and no position.     *)
C8_OrderedDisjointUpToDuplicates ==
    (Returned /\ NonDecreasing(idxs) /\ min_consec >= 1) =>
        \A k \in 1 .. Len(groups) - 1 :
           /\ groups[k][2] <= groups[k + 1][1]
           /\ groups[k][2] = groups[k + 1][1] =>
                 \E j \in 1 .. N - 1 :
                    /\ idxs[j] = idxs[j + 1]
                    /\ idxs[j] + start_offset = groups[k][2]

\* three ranges: two that share a repeated value and one apart from them
C8_Witness ==
    /\ Returned /\ NonDecreasing(idxs) /\ min_consec >= 1
    /\ Len(groups) >= 3
    /\ \E k \in 1 .. Len(groups) - 1 : groups[k][2] = groups[k + 1][1]
    /\ \E k \in 1 .. Len(groups) - 1 : groups[k][2] < groups[k + 1][1]

(* C9: every returned pair (start, end) has start <= end, for every integer *)
(* input, sorted or not, every threshold and every offset.                  *)
C9_StartAtMostEnd ==
    Returned => \A k \in 1 .. Len(groups) : groups[k][1] <= groups[k][2]

\* the break points of the code: where the difference, as np.diff computes
\* it, is not one
NumBreakPoints ==
    Cardinality({j \in 1 .. N - 1 : WrapInt(idxs[j + 1] - idxs[j]) # 1})

(* C10: no access is out of range.  On a non-empty input the boundary list  *)
(* starts at 0, ends at n and is strictly increasing; in every iteration    *)
(* 0 <= start_idx <= end_idx <= n - 1; no IndexError is raised; the loop    *)
(* runs number of break points + 1 iterations and then returns.             *)
C10_IndicesInRange ==
    /\ pc # "error"
    /\ (pc \in {"loop", "done"} /\ N > 0) =>
          LET nb == NumBreakPoints
          IN  /\ Len(boundaries) = nb + 2
              /\ boundaries[1] = 0
              /\ boundaries[Len(boundaries)] = N
              /\ \A k \in 1 .. Len(boundaries) - 1 :
                    boundaries[k] < boundaries[k + 1]
              /\ i <= nb + 1
              /\ i >= 1 => (0 <= start_idx /\ start_idx <= end_idx
                              /\ end_idx <= N - 1)
              /\ (pc = "loop" /\ i = nb + 1) => ENABLED ReturnGroups
              /\ Returned => i = nb + 1

\* the third iteration of a loop, on a run of more than one element
C10_Witness ==
    /\ pc = "loop"
    /\ i >= 3
    /\ start_idx < end_idx
    /\ InRange(boundaries, i)

C12_UnsortedBreaksAreBoundaries ==
    ~NonDecreasing(idxs) =>
        /\ pc # "error"
        /\ pc \in {"loop", "done"} =>
              \A j \in 1 .. N - 1 :
                 idxs[j + 1] - idxs[j] # 1 =>
                    \E k \in 1 .. Len(boundaries) : boundaries[k] = j

\* The single left-to-right scan of the specification's design notes: k is
\* the position examined, s the start of the current run; the run is emitted,
\* if it is long enough, when the next element is not the previous plus one
\* or the sequence ends.
RECURSIVE ScanFrom(_, _, _, _, _)
ScanFrom(a, k, s, m, off) ==
    IF k > Len(a) THEN <<>>
    ELSE IF k = Len(a) \/ a[k + 1] # a[k] + 1
         THEN (IF k - s + 1 >= m THEN << <<a[s] + off, a[k] + off>> >>
               ELSE <<>>) \o ScanFrom(a, k + 1, k + 1, m, off)
         ELSE ScanFrom(a, k + 1, s, m, off)

LinearScan(a, m, off) == ScanFrom(a, 1, 1, m, off)

(* C15: for every integer sequence, threshold and offset the call returns   *)
(* the list the single linear scan returns.                                 *)
C15_EqualsLinearScan ==
    Returned => groups = LinearScan(idxs, min_consec, start_offset)

\* the pair p is the values of a maximal run of a, shifted by off
IsMaximalRunPair(a, p, off) ==
    \E r \in MaximalRuns(a) : p = <<a[r[1]] + off, a[r[2]] + off>>

(* C16 as stated: for min_consec <= 0 the call raises no error and returns  *)
(* some pair that is not a maximal consecutive run of at least one input    *)
(* element.                                                                 *)
C16_NonsensicalGroupings ==
    (Returned /\ min_consec <= 0 /\ N > 0) =>
        \E k \in 1 .. Len(groups) :
           ~IsMaximalRunPair(idxs, groups[k], start_offset)

(* C16 as amended: for min_consec <= 0 the call validates nothing, raises   *)
(* no error and returns the list it returns for min_consec = 1; on a        *)
(* non-decreasing input that is one pair for every maximal run, each of at  *)
(* least one element, and no other pair.                                    *)
C16_NonPositiveThresholdAsOne ==
    min_consec <= 0 =>
        /\ pc # "error"
        /\ Returned =>
              /\ groups = FindConsecutiveIntegers(idxs, 1, start_offset)
              /\ NonDecreasing(idxs) =>
                    /\ Len(groups) = Cardinality(MaximalRuns(idxs))
                    /\ \A k \in 1 .. Len(groups) :
                          /\ IsMaximalRunPair(idxs, groups[k], start_offset)
                          /\ PairSize(groups[k]) >= 1

\* a call with a non-positive threshold that returned a singleton and a
\* longer run
C16_Witness ==
    /\ Returned /\ min_consec <= 0
    /\ NonDecreasing(idxs)
    /\ \E k \in 1 .. Len(groups) : PairSize(groups[k]) = 1
    /\ \E k \in 1 .. Len(groups) : PairSize(groups[k]) >= 2

\* max(1, min_consec)
AtLeastOne(m) == IF m >= 1 THEN m ELSE 1

(* C17: every pair appended covers, as end - start + 1, the number of       *)
(* elements of its source run, which is >= max(1, min_consec); the result   *)
(* for a min_consec <= 1 is the result for min_consec = 1; the sizes of the *)
(* returned pairs add up to at most the input length.                       *)
C17_PairSizeIsRunLength ==
    /\ (pc \in {"loop", "done"} /\ i >= 1
          /\ Qualifies(start_idx, end_idx, min_consec)) =>
          /\ Len(groups) >= 1
          /\ PairSize(groups[Len(groups)]) = end_idx - start_idx + 1
          /\ end_idx - start_idx + 1 >= AtLeastOne(min_consec)
    /\ (Returned /\ min_consec <= 1) =>
          groups = FindConsecutiveIntegers(idxs, 1, start_offset)
    /\ Returned => SumSizes(groups) <= N

(* C13: the function is pure.  A call with the input, threshold and offset  *)
(* of the first call of the session returns the list the first call         *)
(* returned, whatever calls were made in between; every call returns what   *)
(* the function of its arguments alone gives; and no step of a call changes *)
(* the input sequence.                                                      *)
C13_Pure ==
    /\ [](Returned =>
            /\ groups = FindConsecutiveIntegers(idxs, min_consec,
                                                start_offset)
            /\ (first # <<>> /\ idxs = first[1] /\ min_consec = first[2]
                  /\ start_offset = first[3]) => groups = first[4])
    /\ [][pc # "done" => idxs' = idxs]_vars

\* the third call of a session repeats the first one, after another call in
\* between, and returns a non-empty list
C13_Witness ==
    /\ Returned
    /\ calls = 3
    /\ first # <<>>
    /\ idxs = first[1] /\ min_consec = first[2] /\ start_offset = first[3]
    /\ groups # <<>>

\* the calculator is constructed: __init__ returned
Constructed == rr_pc = "ready"

\* x != y of two floats: True when an operand is NaN
FNe(x, y) == IsNaN(x) \/ IsNaN(y) \/ x # y

(* C14: the construction raises ValueError exactly when                     *)
(* (is_short and entry_point >= stop_loss) or                               *)
(* (not is_short and entry_point <= stop_loss), before any attribute is     *)
(* stored; so every constructed calculator has entry_point != stop_loss and *)
(* price_delta = |entry_point - stop_loss| > 0, and the division computing  *)
(* shares_to_trade never divides by zero.                                   *)
C14_ValueErrorExactly ==
    /\ rr_pc \notin {"idle", "init"} =>
          (rr_pc = "ValueError" <=>
              \/ rr_args.is_short
                   /\ FGe(rr_args.entry_point, rr_args.stop_loss)
              \/ ~rr_args.is_short
                   /\ FLe(rr_args.entry_point, rr_args.stop_loss))
    /\ rr_pc = "ValueError" => calc = <<>>
    /\ rr_pc # "ZeroDivisionError in shares_to_trade"
    /\ Constructed =>
          /\ FNe(calc.entry_point, calc.stop_loss)
          /\ calc.price_delta = FAbs(FSub(calc.entry_point, calc.stop_loss))
          /\ FGt(calc.price_delta, 0)

\* r_levels() was called without a list and has returned
DefaultLevels == Constructed /\ results # <<>> /\ ~results.arg.is_list

\* level k of the list returned
Level(k) == results.out[k]

\* the parts of the claim that name each level's fields
LevelFieldsAsComputed ==
    /\ Len(results.out) = Len(DEFAULT_R_VALUES)
    /\ \A k \in 1 .. Len(results.out) :
          LET r == DEFAULT_R_VALUES[k]
              step == FMul(FromInt(r), calc.price_delta)
          IN  /\ Level(k).r_level = r
              /\ Level(k).potential_pl = FMul(FromInt(r), calc.amount_to_risk)
              /\ Level(k).price = IF calc.is_short
                                  THEN FSub(calc.entry_point, step)
                                  ELSE FAdd(calc.entry_point, step)

ExactLevel(r) ==
    /\ ~IsNaN(calc.entry_point)
    /\ ~IsNaN(calc.price_delta)
    /\ IsFloat(r * calc.price_delta)
    /\ IsFloat(calc.entry_point + Direction(calc) * r * calc.price_delta)

====
